---------------------------- MODULE Spec2Model ----------------------------
(***************************************************************************)
(* Model of the Ai-Kall language tutor: the React App component (four      *)
(* variants: the two in src/App.tsx, src/unnamed/part_002 and              *)
(* src/unnamed/part_003) on top of GeminiTutorService (four variants:      *)
(* src/services/geminiService.ts, src/unnamed/part_000 and the two in      *)
(* src/unnamed/part_001).                                                  *)
(*                                                                         *)
(* A JavaScript string is a sequence of tokens.  A token is one of the     *)
(* two markers, a whitespace character, a word, or a fixed piece of text   *)
(* of the program (a greeting, a placeholder, a piece of the prompt).      *)
(***************************************************************************)
EXTENDS Integers, Sequences, FiniteSets, TLC

-----------------------------------------------------------------------------
(* Strings *)

TMARK == "[TRANSCRIPTION]"
RMARK == "[RESPONSE]"
WS == " "

\* The value of a missing array element or property.
Undefined == <<"undefined">>

\* String.prototype.includes for a marker.
Includes(s, m) == \E i \in 1..Len(s) : s[i] = m

\* Position of the first occurrence of m in s, 0 when there is none.
IndexOf(s, m) ==
    IF Includes(s, m)
    THEN CHOOSE i \in 1..Len(s) : s[i] = m /\ \A j \in 1..(i - 1) : s[j] # m
    ELSE 0

\* A trim that removes nothing.
TrimNothing(s) == s

\* String.prototype.trim.
Trim(s) ==
    LET keep == {i \in 1..Len(s) : s[i] # WS}
    IN  IF keep = {} THEN <<>>
        ELSE SubSeq(s, CHOOSE i \in keep : \A j \in keep : i <= j,
                       CHOOSE i \in keep : \A j \in keep : i >= j)

\* String.prototype.split with a marker as the separator: every occurrence
\* separates, the result has one more part than there are occurrences.
RECURSIVE Split(_, _)
Split(s, m) ==
    LET i == IndexOf(s, m)
    IN  IF i = 0 THEN <<s>>
        ELSE <<SubSeq(s, 1, i - 1)>> \o Split(SubSeq(s, i + 1, Len(s)), m)

\* parts[k] of a JavaScript array (k counts from 0).
At(parts, k) == IF k + 1 <= Len(parts) THEN parts[k + 1] ELSE Undefined

\* String.prototype.replace(m, ''): only the first occurrence goes.
ReplaceFirst(s, m) ==
    LET i == IndexOf(s, m)
    IN  IF i = 0 THEN s ELSE SubSeq(s, 1, i - 1) \o SubSeq(s, i + 1, Len(s))

\* replace(/\[TRANSCRIPTION\]|\[RESPONSE\]/g, ''): every marker goes.
StripMarkers(s) == SelectSeq(s, LAMBDA t : t # TMARK /\ t # RMARK)

\* a || b on strings: the empty string and undefined are falsy.
OrElse(a, b) == IF a = <<>> \/ a = Undefined THEN b ELSE a

\* s contains t as a contiguous piece.
Contains(s, t) ==
    \E i \in 0..(Len(s) - Len(t)) : SubSeq(s, i + 1, i + Len(t)) = t


-----------------------------------------------------------------------------
(* The variants of the code *)

AppVariants == {"App_a", "App_b", "part_002", "part_003"}
SvcVariants == {"geminiService", "part_000", "part_001a", "part_001b"}

LEVELS == {"A1", "A2", "B1", "B2", "C1", "C2"}
GOALS == {"English", "Russian"}
PracticeModes == {"MENU", "CONVERSATION", "INTERVIEW", "CUSTOM"}

USER == "user"
TUTOR == "tutor"

-----------------------------------------------------------------------------
(* The reply parser of recorder.onstop *)

\* What the parsing block of recorder.onstop comes to: whether it threw
\* (trim() called on undefined), and the texts of the two addMessage calls.
Parsed(threw, userText, tutorText) ==
    [raised |-> threw, user |-> userText, tutor |-> tutorText]

\* x.trim() where x may be undefined: the call throws a TypeError.
TrimThrows(x) == x = Undefined

cleanResponse(text) ==
    IF Includes(text, RMARK)
    THEN Trim(At(Split(text, RMARK), 1))
    ELSE Trim(StripMarkers(text))

ParseApp_a(result) ==
    LET parts == Split(result, RMARK)
    IN  IF Includes(result, TMARK) /\ Includes(result, RMARK)
        THEN Parsed(TrimThrows(At(parts, 1)),
                    OrElse(Trim(ReplaceFirst(At(parts, 0), TMARK)),
                           <<"I heard something but couldn't transcribe it.">>),
                    Trim(At(parts, 1)))
        ELSE IF Includes(result, RMARK)
        THEN Parsed(TrimThrows(At(parts, 1)),
                    OrElse(Trim(At(parts, 0)),
                           <<"I heard something but couldn't transcribe it.">>),
                    Trim(At(parts, 1)))
        ELSE Parsed(FALSE, OrElse(<<"Audio processed">>,
                           <<"I heard something but couldn't transcribe it.">>),
                    result)

\* A parser that trims parts[1] without asking whether the marker is there.
ParseUnguarded(result) ==
    LET parts == Split(result, RMARK)
    IN  Parsed(TrimThrows(At(parts, 1)), Trim(At(parts, 0)), Trim(At(parts, 1)))

ParseApp_b(result) ==
    LET parts == Split(result, RMARK)
    IN  IF Includes(result, RMARK)
        THEN Parsed(TrimThrows(At(parts, 1)),
                    OrElse(Trim(ReplaceFirst(At(parts, 0), TMARK)), <<"Audio input">>),
                    Trim(At(parts, 1)))
        ELSE Parsed(FALSE, OrElse(result, <<"Audio input">>), result)

ParsePart_002(result) ==
    LET parts == Split(result, RMARK)
        p0 == At(parts, 0)
        p1 == At(parts, 1)
    IN  Parsed(FALSE,
               OrElse(IF p0 = Undefined THEN Undefined ELSE Trim(p0),
                      <<"Unintelligible audio">>),
               OrElse(IF p1 = Undefined THEN Undefined ELSE Trim(p1),
                      <<"I couldn't generate a response.">>))

ParsePart_003(result) ==
    LET parts == Split(result, RMARK)
    IN  IF Includes(result, RMARK)
        THEN Parsed(TrimThrows(At(parts, 1)),
                    Trim(ReplaceFirst(At(parts, 0), TMARK)),
                    Trim(At(parts, 1)))
        ELSE Parsed(FALSE, <<"Audio message">>, cleanResponse(result))

ParseReply(app, result) ==
    CASE app = "App_a" -> ParseApp_a(result)
      [] app = "App_b" -> ParseApp_b(result)
      [] app = "part_002" -> ParsePart_002(result)
      [] app = "part_003" -> ParsePart_003(result)

-----------------------------------------------------------------------------
(* GeminiTutorService: the instruction string *)

levelDescriptions(svc, level) ==
    CASE svc \in {"geminiService", "part_001b"} ->
           (CASE level = "A1" -> "Beginner. Use very simple words and short sentences."
              [] level = "A2" -> "Elementary. Use simple language but start introducing basic past and future tenses."
              [] level = "B1" -> "Intermediate. Use standard language. Focus on common expressions."
              [] level = "B2" -> "Upper Intermediate. Use a rich vocabulary. Engage in deeper discussions."
              [] level = "C1" -> "Advanced. Use sophisticated vocabulary and complex grammar."
              [] level = "C2" -> "Proficiency. Speak naturally as a native professional would."
              [] OTHER -> "undefined")
      [] svc = "part_000" ->
           (CASE level = "A1" -> "Beginner. Use very simple words and short sentences."
              [] level = "A2" -> "Elementary. Simple language but start introducing basic past and future tenses."
              [] level = "B1" -> "Intermediate. Standard language. Focus on common expressions."
              [] level = "B2" -> "Upper Intermediate. Use a rich vocabulary. Engage in deeper discussions."
              [] level = "C1" -> "Advanced. Use sophisticated vocabulary and complex grammar."
              [] level = "C2" -> "Proficiency. Speak naturally as a native professional would."
              [] OTHER -> "undefined")
      [] svc = "part_001a" ->
           (CASE level = "A1" -> "Beginner. Use very simple words."
              [] level = "A2" -> "Elementary. Simple sentences."
              [] level = "B1" -> "Intermediate. Standard expressions."
              [] level = "B2" -> "Upper Intermediate. Rich vocabulary."
              [] level = "C1" -> "Advanced. Complex grammar."
              [] level = "C2" -> "Proficiency. Native professional level."
              [] OTHER -> "undefined")

\* A tutor that speaks English whatever the target language.
tutorLangEnglish(targetLanguage) == "English"

tutorLang(targetLanguage) ==
    IF targetLanguage = "English" THEN "English" ELSE "Russian"

CasualClause == <<"Context: A casual everyday conversation. Be friendly and informal.">>
RecruiterClause == <<"Context: A formal job interview. You are a professional recruiter/hiring manager. Ask challenging interview questions.">>
GenericClause == <<"Context: General practice.">>

modeInstruction(svc, mode, scenario) ==
    IF svc = "part_001a"
    THEN IF mode = "INTERVIEW" THEN <<"You are a job interviewer. Be formal.">>
         ELSE IF mode = "CUSTOM" THEN <<"Context: ">> \o scenario
         ELSE <<"A casual friendly conversation.">>
    ELSE CASE mode = "CONVERSATION" -> CasualClause
           [] mode = "INTERVIEW" -> RecruiterClause
           [] mode = "CUSTOM" ->
                <<"Context: ">> \o scenario \o <<". Adopt this persona/scenario strictly.">>
           [] OTHER -> GenericClause

\* The line break and indentation between the lines of the template literal.
Br == <<"\n    ">>

\* The opening of the instruction: who the tutor is and the student's level.
Opening(svc, level, lang) ==
    IF svc = "part_001a"
    THEN <<"You are a professional ", tutorLang(lang), " tutor. Student level: ",
           level, ". ", levelDescriptions(svc, level)>>
    ELSE <<"You are a friendly and professional ", tutorLang(lang),
           " Tutor. Current Student Level: ", level, ". ",
           levelDescriptions(svc, level)>>

\* The fixed rules that close the instruction.
Rules(svc, lang) ==
    CASE svc = "geminiService" ->
           <<"Your goals: 1. Listen to the user's spoken or written ", tutorLang(lang),
             ". 2. Politely correct any grammatical errors or awkward phrasing relative to their level. 3. Maintain an encouraging conversation based on the context provided. 4. Keep your responses short (2-3 sentences max) so they are suitable for voice playback. 5. If the user makes a mistake, explain it briefly in ",
             tutorLang(lang),
             ". Output format: Provide your response in plain text. Do not use complex markdown.">>
      [] svc = "part_001b" ->
           <<"Your goals: 1. Listen to the user's spoken or written ", tutorLang(lang),
             ". 2. Politely correct any grammatical errors or awkward phrasing relative to their level. 3. Maintain an encouraging conversation based on the context provided. 4. Keep your responses short (2-3 sentences max) so they are suitable for voice playback. 5. If the user makes a mistake, explain it briefly in ",
             tutorLang(lang),
             ". IMPORTANT: You will receive audio input. First, transcribe the user's speech exactly. Then, provide your response. Format: ",
             TMARK, " (Your transcription here) ", RMARK, " (Your response here).">>
      [] svc = "part_000" ->
           <<"Your goals: 1. Listen to the user's spoken or written input. 2. Politely correct any grammatical errors or awkward phrasing relative to their level. 3. Maintain an encouraging conversation. 4. Keep your responses short (max 3 sentences) for voice playback. IMPORTANT: When processing audio, you must provide both a transcription of what you heard and your response. Format your entire response exactly like this: ",
             TMARK, " (what you heard the user say) ", RMARK,
             " (your correction and reply to the user)">>
      [] svc = "part_001a" ->
           <<"Rules: 1. Transcribe the user audio if provided. 2. Correct mistakes politely. 3. Keep responses under 3 sentences. 4. Return format: ",
             TMARK, " text ", RMARK, " text.">>

\* getSystemInstruction() / the instructions of initChat(), from the fields
\* of the service.
getSystemInstruction(svc, level, lang, mode, scenario) ==
    Opening(svc, level, lang) \o Br \o modeInstruction(svc, mode, scenario)
        \o Br \o Rules(svc, lang)


-----------------------------------------------------------------------------
(* State *)

VARIABLES
    env,                \* the variant of App and of the service that runs, and
                        \* the replies the remote model may give
    currentUser, isRegistering, authError,          \* App: authentication
    username, password, level, targetLanguage,      \* App: the auth form
    tutor_user, tutor_users_db,                     \* localStorage
    mode, customScenarioInput, messages, inputText, \* App: practice
    isRecording, isProcessing, isPlaying,
    mediaRecorderRef, audioChunksRef, audioContextRef,
    service,            \* the fields of tutorService
    tasks,              \* the handlers suspended at an await
    recorders,          \* the MediaRecorder objects created so far
    micPending,         \* getUserMedia calls not yet settled
    sources,            \* buffer sources started and not yet ended
    contexts,           \* AudioContext objects created so far
    session,            \* practice sessions started so far
    notice,             \* the text of the last alert() shown
    held,               \* the microphone button is held down
    lastOp              \* the handler or callback that ran last

authVars == <<currentUser, isRegistering, authError, username, password, level,
              targetLanguage>>
storeVars == <<tutor_user, tutor_users_db>>
chatVars == <<mode, customScenarioInput, messages, inputText, isProcessing>>
playVars == <<isPlaying, audioContextRef, contexts, sources>>
recVars == <<isRecording, mediaRecorderRef, audioChunksRef, recorders, micPending>>

vars == <<env, authVars, storeVars, chatVars, playVars, recVars, service, tasks,
          session, notice, held, lastOp>>

\* null / undefined of a value that is otherwise a record.
Null == [null |-> TRUE]

\* A property every object inherits from Object.prototype (users["constructor"]).
Inherited == [inherited |-> TRUE]
InheritedNames == {"constructor"}

\* users[name] on the object parsed from tutor_users_db.
Lookup(users, name) ==
    IF name \in DOMAIN users THEN users[name]
    ELSE IF name \in InheritedNames THEN Inherited
    ELSE Null

\* The empty object {} of JSON.parse('{}').
EmptyDb == [u \in {} |-> Null]

\* A directory write that is lost.
PutNothing(users, name, rec) == users

\* { ...users, [name]: rec }
Put(users, name, rec) ==
    [u \in DOMAIN users \cup {name} |-> IF u = name THEN rec ELSE users[u]]

\* A message that is the tutor's whatever the role given.
MessageOfTutor(role, text) == [role |-> TUTOR, text |-> text]

User(name, lvl, lang) == [username |-> name, level |-> lvl, targetLanguage |-> lang]

Message(role, text) == [role |-> role, text |-> text]

\* The screen the component renders.
AuthScreen == currentUser = Null
MenuScreen == currentUser # Null /\ mode = "MENU"
ChatScreen == currentUser # Null /\ mode # "MENU"

-----------------------------------------------------------------------------
(* GeminiTutorService: the session *)

\* The variants that keep a chat object created by initChat().
HasChat(svc) == svc \in {"geminiService", "part_001b"}

NewService ==
    [currentLevel |-> "B1", targetLanguage |-> "English", currentMode |-> "MENU",
     customScenario |-> <<>>, chat |-> Undefined]

\* initChat(): the chat created holds the instruction built from the fields.
initChat(svc, s) ==
    [s EXCEPT !.chat = getSystemInstruction(svc, s.currentLevel, s.targetLanguage,
                                            s.currentMode, s.customScenario)]

\* A startSession that trims the scenario before it keeps it.
startSessionTrimmed(svc, s, lvl, lang, m, scenario) ==
    LET t == [s EXCEPT !.currentLevel = lvl, !.targetLanguage = lang,
                       !.currentMode = m, !.customScenario = Trim(scenario)]
    IN  IF HasChat(svc) THEN initChat(svc, t) ELSE t

startSession(svc, s, lvl, lang, m, scenario) ==
    LET t == [s EXCEPT !.currentLevel = lvl, !.targetLanguage = lang,
                       !.currentMode = m, !.customScenario = scenario]
    IN  IF HasChat(svc) THEN initChat(svc, t) ELSE t

-----------------------------------------------------------------------------
(* App: authentication *)

SetUsername(u) ==
    /\ AuthScreen
    /\ username' = u
    /\ lastOp' = "setUsername"
    /\ UNCHANGED <<env, session, notice, held, currentUser, isRegistering, authError, password, level,
                   targetLanguage, storeVars, chatVars, playVars, recVars, service,
                   tasks>>

SetPassword(p) ==
    /\ AuthScreen
    /\ password' = p
    /\ lastOp' = "setPassword"
    /\ UNCHANGED <<env, session, notice, held, currentUser, isRegistering, authError, username, level,
                   targetLanguage, storeVars, chatVars, playVars, recVars, service,
                   tasks>>

\* The level buttons of the sign-up form.
SetLevel(l) ==
    /\ AuthScreen /\ isRegistering
    /\ level' = l
    /\ lastOp' = "setLevel"
    /\ UNCHANGED <<env, session, notice, held, currentUser, isRegistering, authError, username, password,
                   targetLanguage, storeVars, chatVars, playVars, recVars, service,
                   tasks>>

\* The language buttons of the sign-up form (App_b has none).
SetTargetLanguage(g) ==
    /\ AuthScreen /\ isRegistering
    /\ env.app # "App_b"
    /\ targetLanguage' = g
    /\ lastOp' = "setTargetLanguage"
    /\ UNCHANGED <<env, session, notice, held, currentUser, isRegistering, authError, username, password,
                   level, storeVars, chatVars, playVars, recVars, service, tasks>>

ToggleRegistering ==
    /\ AuthScreen
    /\ isRegistering' = ~isRegistering
    /\ lastOp' = "setIsRegistering"
    /\ UNCHANGED <<env, session, notice, held, currentUser, authError, username, password, level,
                   targetLanguage, storeVars, chatVars, playVars, recVars, service,
                   tasks>>

\* The texts of setAuthError.
FillFieldsError(app) ==
    IF app = "App_b" THEN "Fill all fields" ELSE "Please fill in all fields"
UserExistsError(app) ==
    CASE app = "App_b" -> "User exists"
      [] app = "part_003" -> "Username already exists"
      [] OTHER -> "User already exists"
BadLoginError(app) ==
    CASE app = "App_b" -> "Wrong credentials"
      [] app = "part_003" -> "Invalid credentials"
      [] OTHER -> "Invalid username or password"

\* setAuthError('') opens handleAuth in App_a and part_002 only.
ClearsAuthError(app) == app \in {"App_a", "part_002"}

\* `users[username]` is truthy: the sign-up is refused.
RegisterRefused(users, name) == Lookup(users, name) # Null

\* A login check that looks for the user and not at the password.
LoginRefusedUnknownOnly(users, name, pw) == name \notin DOMAIN users

\* `!stored || stored.password !== password`: the login is refused.
LoginRefused(users, name, pw) ==
    LET stored == Lookup(users, name)
    IN  \/ stored = Null
        \/ stored = Inherited
        \/ stored.password # pw

\* A login that takes the defaults of the form, not the stored profile.
LoginUserDefaults(app, name, stored) == User(name, "B1", "English")

\* The user a login restores from the stored record.
LoginUser(app, name, stored) ==
    User(name, stored.level,
         IF app \in {"App_a", "part_002"}
         THEN (IF stored.targetLanguage = "" THEN "English" ELSE stored.targetLanguage)
         ELSE stored.targetLanguage)

handleAuth ==
    /\ AuthScreen
    /\ lastOp' = "handleAuth"
    /\ LET users == tutor_users_db
           cleared == IF ClearsAuthError(env.app) THEN "" ELSE authError
       IN  IF username = "" \/ password = ""
           THEN /\ authError' = FillFieldsError(env.app)
                /\ UNCHANGED <<currentUser, storeVars>>
           ELSE IF isRegistering
           THEN IF RegisterRefused(users, username)
                THEN /\ authError' = UserExistsError(env.app)
                     /\ UNCHANGED <<currentUser, storeVars>>
                ELSE /\ tutor_users_db' =
                            Put(users, username,
                                [password |-> password, level |-> level,
                                 targetLanguage |-> targetLanguage])
                     /\ currentUser' = User(username, level, targetLanguage)
                     /\ tutor_user' = User(username, level, targetLanguage)
                     /\ authError' = cleared
           ELSE IF LoginRefused(users, username, password)
                THEN /\ authError' = BadLoginError(env.app)
                     /\ UNCHANGED <<currentUser, storeVars>>
                ELSE /\ currentUser' = LoginUser(env.app, username, users[username])
                     /\ tutor_user' = LoginUser(env.app, username, users[username])
                     /\ authError' = cleared
                     /\ UNCHANGED tutor_users_db
    /\ UNCHANGED <<env, session, notice, held, isRegistering, username, password, level, targetLanguage,
                   chatVars, playVars, recVars, service, tasks>>

\* The logout button of the menu: handleLogout in App_a and part_002, an inline
\* handler in App_b and part_003.
handleLogout ==
    /\ MenuScreen
    /\ lastOp' = "handleLogout"
    /\ tutor_user' = Null
    /\ currentUser' = Null
    /\ IF env.app \in {"App_a", "part_002"}
       THEN /\ mode' = "MENU"
            /\ messages' = <<>>
            /\ username' = ""
            /\ password' = ""
       ELSE UNCHANGED <<mode, messages, username, password>>
    /\ UNCHANGED <<env, session, notice, held, isRegistering, authError, level, targetLanguage,
                   tutor_users_db, customScenarioInput, inputText, isProcessing,
                   playVars, recVars, service, tasks>>


-----------------------------------------------------------------------------
(* App: the menu and the session *)

setCustomScenarioInput(s) ==
    /\ MenuScreen
    /\ customScenarioInput' = s
    /\ lastOp' = "setCustomScenarioInput"
    /\ UNCHANGED <<env, session, notice, held, authVars, storeVars, mode, messages, inputText, isProcessing,
                   playVars, recVars, service, tasks>>

\* String.prototype.toLowerCase on a practice mode.
toLowerCase(m) ==
    CASE m = "MENU" -> "menu"
      [] m = "CONVERSATION" -> "conversation"
      [] m = "INTERVIEW" -> "interview"
      [] m = "CUSTOM" -> "custom"

\* The greeting startPractice adds.
Greeting(app, user, selectedMode) ==
    CASE app = "App_a" ->
           IF selectedMode = "INTERVIEW"
           THEN <<"Hello ", user.username, ". I'm your interviewer today. Let's start.">>
           ELSE <<"Hi! Ready to practice ", user.targetLanguage, "? What's on your mind?">>
      [] app = "App_b" ->
           <<"Ready to practice ", user.targetLanguage, "! How can I help you today?">>
      [] app = "part_002" ->
           IF selectedMode = "INTERVIEW"
           THEN <<"Hello ", user.username,
                  ". Thank you for coming today. Let's begin the interview.">>
           ELSE <<"Hi! Ready to practice some ", user.targetLanguage,
                  "? What would you like to talk about?">>
      [] app = "part_003" ->
           <<"Welcome to your ", toLowerCase(selectedMode),
             " practice! I am ready to listen. You can speak or type.">>

\* Whether the menu lets a custom session start: the Go button is disabled
\* while the scenario is blank, except in App_b, whose button is never
\* disabled, and in part_002, whose scenario field also starts on Enter.
CustomStartEnabled(app, scenario) ==
    \/ app \in {"App_b", "part_002"}
    \/ Trim(scenario) # <<>>

\* Practice sessions started in one run.
MaxSessions == 2

\* One of the three buttons of the menu: startPractice(selectedMode, scenario).
startPractice(selectedMode) ==
    /\ MenuScreen
    /\ selectedMode = "CUSTOM" => CustomStartEnabled(env.app, customScenarioInput)
    /\ LET scenario == IF selectedMode = "CUSTOM" THEN customScenarioInput ELSE <<>>
       IN  /\ mode' = selectedMode
           /\ service' = startSession(env.svc, service, currentUser.level,
                                      currentUser.targetLanguage, selectedMode,
                                      scenario)
           /\ messages' = <<Message(TUTOR, Greeting(env.app, currentUser, selectedMode))>>
    /\ session < MaxSessions
    /\ session' = session + 1
    /\ lastOp' = "startPractice"
    /\ UNCHANGED <<env, notice, held, authVars, storeVars, customScenarioInput, inputText,
                   isProcessing, playVars, recVars, tasks>>

\* The back button of the chat screen.
BackToMenu ==
    /\ ChatScreen
    /\ mode' = "MENU"
    /\ lastOp' = "backToMenu"
    /\ UNCHANGED <<env, session, notice, held, authVars, storeVars, customScenarioInput, messages, inputText,
                   isProcessing, playVars, recVars, service, tasks>>

\* The trash button of the chat screen (App_b has none).
ClearChat ==
    /\ ChatScreen
    /\ env.app # "App_b"
    /\ messages' = <<>>
    /\ lastOp' = "clearChat"
    /\ UNCHANGED <<env, session, notice, held, authVars, storeVars, mode, customScenarioInput, inputText,
                   isProcessing, playVars, recVars, service, tasks>>

\* A merge that keeps the old object and drops the updates.
MergeKeepsOld(obj, updates) == obj

\* { ...obj, ...updates }: updates is a function from some field names.
Merge(obj, updates) ==
    [f \in DOMAIN obj \cup DOMAIN updates |->
        IF f \in DOMAIN updates THEN updates[f] ELSE obj[f]]

\* handleProfileUpdate(updates).  Only part_002 wires it to the screen (the
\* level selector of the chat header); App_a defines it and never calls it.
handleProfileUpdate(updates) ==
    /\ env.app = "part_002"
    /\ ChatScreen
    /\ LET updatedUser == Merge(currentUser, updates)
           users == tutor_users_db
       IN  /\ currentUser' = updatedUser
           /\ tutor_user' = updatedUser
           /\ tutor_users_db' =
                 IF Lookup(users, currentUser.username) # Null
                 THEN Put(users, currentUser.username,
                          Merge(Lookup(users, currentUser.username), updates))
                 ELSE users
           /\ service' =
                 IF mode # "MENU"
                 THEN startSession(env.svc, service, updatedUser.level,
                                   updatedUser.targetLanguage, mode,
                                   customScenarioInput)
                 ELSE service
    /\ lastOp' = "handleProfileUpdate"
    /\ UNCHANGED <<env, session, notice, held, isRegistering, authError, username, password, level,
                   targetLanguage, chatVars, playVars, recVars, tasks>>


-----------------------------------------------------------------------------
(* Bounds of the model *)

\* Handlers suspended at an await at the same time.
MaxTasks == 2
\* Length of the message list beyond which no new exchange is started.
MaxMessages == 3
\* MediaRecorder objects created in one run.
MaxRecorders == 2

\* `audioBlob.size < 50`: the clips part_003 drops.
MinClipSize == 50

-----------------------------------------------------------------------------
(* The handlers suspended at an await *)

\* kind: "text" (handleSendText), "audio" (recorder.onstop), "play" (the Play
\*       button's playResponse);
\* pc:   "encode" (await blobToBase64), "send" (await sendMessage or the
\*       generateContent of processAudio), "speech" (await getSpeech),
\*       "decode" (await decodeAudioData);
\* instr: the instruction the request carries, Undefined when it carries none;
\* clip: the size of the audio clip; say: the text playResponse speaks;
\* doomed: the call has already thrown, the await can only reject;
\* session: the practice session in which the handler was called.
Task(kind, pc, instr, clip, say, doomed) ==
    [kind |-> kind, pc |-> pc, instr |-> instr, clip |-> clip, say |-> say,
     doomed |-> doomed, session |-> session]

Remove(seq, i) == SubSeq(seq, 1, i - 1) \o SubSeq(seq, i + 1, Len(seq))

RECURSIVE Sum(_)
Sum(seq) == IF seq = <<>> THEN 0 ELSE Head(seq) + Sum(Tail(seq))

\* The instruction the current session gives a request.
RequestInstruction(svc, s) ==
    getSystemInstruction(svc, s.currentLevel, s.targetLanguage, s.currentMode,
                         s.customScenario)

\* What a sendMessage call sends: the chat's instruction, or the one built now.
TextInstruction(svc, s) ==
    IF svc = "geminiService" THEN s.chat
    ELSE IF svc = "part_001b"
    THEN (IF s.chat = Undefined THEN initChat(svc, s).chat ELSE s.chat)
    ELSE RequestInstruction(svc, s)

\* getAI() of the first service of part_001 throws when the key is missing;
\* the other services hand the SDK an empty key and let the request fail.
GetAIThrows(svc) == svc = "part_001a" /\ ~env.key

\* sendMessage(text) up to its await: the request that goes out.  In
\* geminiService a call before any startSession finds no chat and throws.
TextRequest(svc, s) ==
    Task("text", "send", TextInstruction(svc, s), 0, <<>>,
         (svc = "geminiService" /\ s.chat = Undefined) \/ GetAIThrows(svc))

\* sendMessage(text): part_001b creates the chat when there is none yet.
sendMessage(svc, s) ==
    IF svc = "part_001b" /\ s.chat = Undefined THEN initChat(svc, s) ELSE s

\* What a processAudio call sends as config.systemInstruction.
AudioInstruction(svc, s) ==
    IF HasChat(svc) THEN Undefined ELSE RequestInstruction(svc, s)

\* `response.text || fallback` of sendMessage and of processAudio.
TextOf(svc, raw, kind) ==
    OrElse(raw, IF svc = "part_001a"
                THEN (IF kind = "text" THEN <<"No response.">>
                      ELSE <<"No response from AI.">>)
                ELSE <<>>)

\* The message of the catch block of handleSendText.
TextErrorMessage(app) ==
    CASE app = "App_a" -> <<"Sorry, I'm having trouble connecting to my brain.">>
      [] app = "App_b" -> <<"Error: ", "err.message", ". Check your API Key.">>
      [] app = "part_002" -> <<"Sorry, I'm having trouble connecting right now.">>
      [] app = "part_003" ->
           <<"I encountered an error: ", "err.message",
             ". Please ensure you have a valid internet connection.">>

\* The messages the catch block of recorder.onstop adds (part_002 only logs).
AudioErrorMessages(app) ==
    CASE app = "App_a" ->
           <<Message(TUTOR, <<"I couldn't hear you clearly. Error: ", "err.message">>)>>
      [] app = "App_b" -> <<Message(TUTOR, <<"Mic Error: ", "err.message">>)>>
      [] app = "part_002" -> <<>>
      [] app = "part_003" ->
           <<Message(TUTOR, <<"I encountered an error: ", "err.message",
                              ". Please ensure you have a valid internet connection.">>)>>

-----------------------------------------------------------------------------
(* App: text exchange *)

setInputText(t) ==
    /\ ChatScreen
    /\ ~isRecording
    /\ inputText' = t
    /\ lastOp' = "setInputText"
    /\ UNCHANGED <<env, session, notice, held, authVars, storeVars, mode, customScenarioInput, messages,
                   isProcessing, playVars, recVars, service, tasks>>

\* The send button: disabled={!inputText.trim() || isProcessing || isRecording},
\* in App_b disabled={!inputText.trim()}.
SendButtonEnabled(app) ==
    /\ Trim(inputText) # <<>>
    /\ app = "App_b" \/ (~isProcessing /\ ~isRecording)

\* handleSendText up to its await: from the Enter key of the text area (shown
\* while not recording) or from the send button.
handleSendText ==
    /\ ChatScreen
    /\ ~isRecording \/ SendButtonEnabled(env.app)
    /\ lastOp' = "handleSendText"
    /\ IF Trim(inputText) = <<>> \/ isProcessing
       THEN UNCHANGED <<inputText, messages, isProcessing, tasks, service>>
       ELSE /\ Len(tasks) < MaxTasks
            /\ Len(messages) < MaxMessages
            /\ inputText' = <<>>
            /\ messages' = Append(messages, Message(USER, inputText))
            /\ isProcessing' = TRUE
            /\ tasks' = Append(tasks, TextRequest(env.svc, service))
            /\ service' = sendMessage(env.svc, service)
    /\ UNCHANGED <<env, session, notice, held, authVars, storeVars, mode, customScenarioInput, playVars,
                   recVars>>

\* playResponse up to its await, as the last call of a handler: the task goes
\* on to wait for getSpeech.
AwaitSpeech(i, text) ==
    [tasks EXCEPT ![i].pc = "speech", ![i].say = text]

\* sendMessage resolved with the raw reply: the try block of handleSendText.
TextResolved(i, raw) ==
    /\ i \in 1..Len(tasks)
    /\ tasks[i].kind = "text" /\ tasks[i].pc = "send" /\ ~tasks[i].doomed
    /\ env.key
    /\ LET response == TextOf(env.svc, raw, "text")
           result == IF env.app = "part_003" THEN cleanResponse(response)
                     ELSE response
       IN  /\ messages' = Append(messages, Message(TUTOR, result))
           /\ isPlaying' = TRUE
           /\ tasks' = AwaitSpeech(i, result)
    /\ lastOp' = "textResolved"
    /\ UNCHANGED <<env, session, notice, held, authVars, storeVars, mode, customScenarioInput, inputText,
                   isProcessing, audioContextRef, contexts, sources, recVars, service>>

\* A catch block that only logs the error, as the one of recorder.onstop in
\* part_002 does.
CatchLogsOnly(app, msgs) == msgs

\* The catch block of handleSendText: what it makes of the message list.
CatchSendText(app, msgs) == Append(msgs, Message(TUTOR, TextErrorMessage(app)))

\* sendMessage rejected: the catch and finally blocks of handleSendText.
TextRejected(i) ==
    /\ i \in 1..Len(tasks)
    /\ tasks[i].kind = "text" /\ tasks[i].pc = "send"
    /\ messages' = CatchSendText(env.app, messages)
    /\ isProcessing' = FALSE
    /\ tasks' = Remove(tasks, i)
    /\ lastOp' = "textRejected"
    /\ UNCHANGED <<env, session, notice, held, authVars, storeVars, mode, customScenarioInput, inputText,
                   playVars, recVars, service>>


-----------------------------------------------------------------------------
(* App: playback *)

\* A handler that ends without its finally block.
FinishKeepsProcessing(i) ==
    /\ tasks' = Remove(tasks, i)
    /\ UNCHANGED isProcessing

\* A handler whose playResponse has returned runs its finally block and ends;
\* the Play button's playResponse just ends.
Finish(i) ==
    /\ tasks' = Remove(tasks, i)
    /\ isProcessing' = IF tasks[i].kind = "play" THEN isProcessing ELSE FALSE

\* The Play button under a tutor message, shown while !isPlaying:
\* playResponse(msg.text) up to its await.
PlayClicked(k) ==
    /\ ChatScreen
    /\ ~isPlaying
    /\ k \in 1..Len(messages)
    /\ messages[k].role = TUTOR
    /\ Len(tasks) < MaxTasks
    /\ isPlaying' = TRUE
    /\ tasks' = Append(tasks, Task("play", "speech", Undefined, 0, messages[k].text,
                                   FALSE))
    /\ lastOp' = "playClicked"
    /\ UNCHANGED <<env, session, notice, held, authVars, storeVars, chatVars, audioContextRef, contexts, sources,
                   recVars, service>>

\* A playResponse that creates an AudioContext for every playback.
CreatesContextAlways(ref) == TRUE

\* `if (!audioContextRef.current)`: playResponse creates the AudioContext.
CreatesContext(ref) == ~ref

\* getSpeech resolved with audio data: playResponse goes on to decodeAudioData.
\* Without a credential no remote call succeeds.
SpeechResolved(i) ==
    /\ i \in 1..Len(tasks)
    /\ tasks[i].pc = "speech"
    /\ env.key
    /\ audioContextRef' = TRUE
    /\ contexts' = IF CreatesContext(audioContextRef) THEN contexts + 1 ELSE contexts
    /\ tasks' = [tasks EXCEPT ![i].pc = "decode"]
    /\ lastOp' = "speechResolved"
    /\ UNCHANGED <<env, session, notice, held, authVars, storeVars, chatVars, isPlaying, sources, recVars,
                   service>>

\* getSpeech resolved with "" (no audio in the reply, or, in every service but
\* geminiService, a failure caught inside getSpeech): playResponse returns;
\* part_002 returns without setIsPlaying(false).
SpeechEmpty(i) ==
    /\ i \in 1..Len(tasks)
    /\ tasks[i].pc = "speech"
    /\ isPlaying' = IF env.app = "part_002" THEN isPlaying ELSE FALSE
    /\ Finish(i)
    /\ lastOp' = "speechEmpty"
    /\ UNCHANGED <<env, session, notice, held, authVars, storeVars, mode, customScenarioInput, messages,
                   inputText, audioContextRef, contexts, sources, recVars, service>>

\* getSpeech rejected (geminiService's getSpeech has no try/catch): the catch
\* block of playResponse.
SpeechRejected(i) ==
    /\ i \in 1..Len(tasks)
    /\ tasks[i].pc = "speech"
    /\ env.svc = "geminiService"
    /\ isPlaying' = FALSE
    /\ Finish(i)
    /\ lastOp' = "speechRejected"
    /\ UNCHANGED <<env, session, notice, held, authVars, storeVars, mode, customScenarioInput, messages,
                   inputText, audioContextRef, contexts, sources, recVars, service>>

\* decodeAudioData resolved: the source is created and started.
DecodeResolved(i) ==
    /\ i \in 1..Len(tasks)
    /\ tasks[i].pc = "decode"
    /\ sources' = sources + 1
    /\ Finish(i)
    /\ lastOp' = "decodeResolved"
    /\ UNCHANGED <<env, session, notice, held, authVars, storeVars, mode, customScenarioInput, messages,
                   inputText, isPlaying, audioContextRef, contexts, recVars, service>>

\* decode or decodeAudioData threw: the catch block of playResponse.
DecodeRejected(i) ==
    /\ i \in 1..Len(tasks)
    /\ tasks[i].pc = "decode"
    /\ isPlaying' = FALSE
    /\ Finish(i)
    /\ lastOp' = "decodeRejected"
    /\ UNCHANGED <<env, session, notice, held, authVars, storeVars, mode, customScenarioInput, messages,
                   inputText, audioContextRef, contexts, sources, recVars, service>>

\* source.onended.
SourceEnded ==
    /\ sources > 0
    /\ sources' = sources - 1
    /\ isPlaying' = FALSE
    /\ lastOp' = "sourceEnded"
    /\ UNCHANGED <<env, session, notice, held, authVars, storeVars, chatVars, audioContextRef, contexts, recVars,
                   service, tasks>>

-----------------------------------------------------------------------------
(* App: recording *)

\* The sizes of the data a MediaRecorder may hand over when it stops.
ClipSizes == {0, MinClipSize - 1, MinClipSize}

Recorder(state, live, data) == [state |-> state, live |-> live, data |-> data]

\* Mouse or finger down on the microphone button: startRecording up to its
\* await of getUserMedia.
startRecording ==
    /\ ChatScreen
    /\ Len(recorders) + micPending < MaxRecorders
    /\ micPending' = micPending + 1
    /\ held' = TRUE
    /\ lastOp' = "startRecording"
    /\ UNCHANGED <<env, session, notice, authVars, storeVars, chatVars, playVars, isRecording,
                   mediaRecorderRef, audioChunksRef, recorders, service, tasks>>

\* getUserMedia resolved: the rest of startRecording.
MicGranted ==
    /\ micPending > 0
    /\ micPending' = micPending - 1
    /\ recorders' = Append(recorders, Recorder("recording", TRUE, 0))
    /\ mediaRecorderRef' = Len(recorders) + 1
    /\ audioChunksRef' = <<>>
    /\ isRecording' = TRUE
    /\ lastOp' = "micGranted"
    /\ UNCHANGED <<env, session, notice, held, authVars, storeVars, chatVars, playVars, service, tasks>>

\* The catch block of startRecording calls alert(); in part_002 it only logs.
AlertsMicDenied(app) == app # "part_002"
MicNotice(app) ==
    CASE app = "App_a" -> "Please allow microphone access to use voice features."
      [] app = "App_b" -> "Mic blocked. Allow it in browser settings."
      [] app = "part_003" -> "Microphone access is required for voice practice."
      [] OTHER -> ""

\* getUserMedia rejected: the catch block of startRecording.
MicDenied ==
    /\ micPending > 0
    /\ micPending' = micPending - 1
    /\ notice' = IF AlertsMicDenied(env.app) THEN MicNotice(env.app) ELSE notice
    /\ lastOp' = "micDenied"
    /\ UNCHANGED <<env, session, held, authVars, storeVars, chatVars, playVars, isRecording,
                   mediaRecorderRef, audioChunksRef, recorders, service, tasks>>

\* Mouse or finger up on the microphone button: stopRecording.  The recorder
\* will hand over `size` bytes.
\* getUserMedia resolved and `new MediaRecorder(stream)` threw: the same catch
\* block; the stream it acquired is referenced nowhere and stays open.
RecorderFailed ==
    /\ micPending > 0
    /\ micPending' = micPending - 1
    /\ recorders' = Append(recorders, Recorder("failed", TRUE, 0))
    /\ notice' = IF AlertsMicDenied(env.app) THEN MicNotice(env.app) ELSE notice
    /\ lastOp' = "recorderFailed"
    /\ UNCHANGED <<env, session, held, authVars, storeVars, chatVars, playVars, isRecording,
                   mediaRecorderRef, audioChunksRef, service, tasks>>

stopRecording(size) ==
    /\ ChatScreen
    /\ lastOp' = "stopRecording"
    /\ IF mediaRecorderRef # 0 /\ isRecording
       THEN /\ recorders[mediaRecorderRef].state = "recording"
            /\ recorders' = [recorders EXCEPT ![mediaRecorderRef] =
                                Recorder("flushing", FALSE, size)]
            /\ isRecording' = FALSE
       ELSE UNCHANGED <<recorders, isRecording>>
    /\ held' = FALSE
    /\ UNCHANGED <<env, session, notice, authVars, storeVars, chatVars, playVars,
                   mediaRecorderRef, audioChunksRef, micPending, service, tasks>>

\* recorder.ondataavailable: App_b keeps empty chunks too.
DataAvailable(r) ==
    /\ r \in 1..Len(recorders)
    /\ recorders[r].state = "flushing"
    /\ audioChunksRef' =
          IF recorders[r].data > 0 \/ env.app = "App_b"
          THEN Append(audioChunksRef, recorders[r].data)
          ELSE audioChunksRef
    /\ recorders' = [recorders EXCEPT ![r].state = "stopping"]
    /\ lastOp' = "dataAvailable"
    /\ UNCHANGED <<env, session, notice, held, authVars, storeVars, chatVars, playVars, isRecording,
                   mediaRecorderRef, micPending, service, tasks>>

\* Whether recorder.onstop drops a clip of this size (part_003 alone does).
ClipDropped(app, size) == app = "part_003" /\ size < MinClipSize

\* recorder.onstop up to its first await: the clip is built from the chunks and
\* processAudio is called.
OnStop(r) ==
    /\ r \in 1..Len(recorders)
    /\ recorders[r].state = "stopping"
    /\ recorders' = [recorders EXCEPT ![r].state = "inactive"]
    /\ lastOp' = "onStop"
    /\ LET size == Sum(audioChunksRef)
       IN  IF ClipDropped(env.app, size)
           THEN /\ isProcessing' = FALSE
                /\ UNCHANGED tasks
           ELSE /\ Len(tasks) < MaxTasks
                /\ isProcessing' = TRUE
                /\ tasks' = Append(tasks, Task("audio", "encode", Undefined, size,
                                               <<>>, GetAIThrows(env.svc)))
    /\ UNCHANGED <<env, session, notice, held, authVars, storeVars, mode, customScenarioInput, messages,
                   inputText, playVars, isRecording, mediaRecorderRef, audioChunksRef,
                   micPending, service>>

\* blobToBase64 resolved: processAudio sends the clip to the remote model.
AudioEncoded(i) ==
    /\ i \in 1..Len(tasks)
    /\ tasks[i].kind = "audio" /\ tasks[i].pc = "encode" /\ ~tasks[i].doomed
    /\ tasks' = [tasks EXCEPT ![i].pc = "send",
                              ![i].instr = AudioInstruction(env.svc, service)]
    /\ lastOp' = "audioEncoded"
    /\ UNCHANGED <<env, session, notice, held, authVars, storeVars, chatVars, playVars, recVars, service>>

\* processAudio resolved with the raw reply: the try block of recorder.onstop,
\* or its catch and finally blocks when the parsing throws.
AudioResolved(i, raw) ==
    /\ i \in 1..Len(tasks)
    /\ tasks[i].kind = "audio" /\ tasks[i].pc = "send"
    /\ env.key
    /\ lastOp' = "audioResolved"
    /\ LET p == ParseReply(env.app, TextOf(env.svc, raw, "audio"))
       IN  IF p.raised
           THEN /\ messages' = messages \o AudioErrorMessages(env.app)
                /\ isProcessing' = FALSE
                /\ tasks' = Remove(tasks, i)
                /\ UNCHANGED isPlaying
           ELSE /\ messages' = messages \o <<Message(USER, p.user),
                                             Message(TUTOR, p.tutor)>>
                /\ isPlaying' = TRUE
                /\ tasks' = AwaitSpeech(i, p.tutor)
                /\ UNCHANGED isProcessing
    /\ UNCHANGED <<env, session, notice, held, authVars, storeVars, mode, customScenarioInput, inputText,
                   audioContextRef, contexts, sources, recVars, service>>

\* processAudio rejected: the catch and finally blocks of recorder.onstop.
AudioRejected(i) ==
    /\ i \in 1..Len(tasks)
    /\ tasks[i].kind = "audio" /\ tasks[i].pc \in {"encode", "send"}
    /\ messages' = messages \o AudioErrorMessages(env.app)
    /\ isProcessing' = FALSE
    /\ tasks' = Remove(tasks, i)
    /\ lastOp' = "audioRejected"
    /\ UNCHANGED <<env, session, notice, held, authVars, storeVars, mode, customScenarioInput, inputText,
                   playVars, recVars, service>>


-----------------------------------------------------------------------------
(* tutorService called directly *)

\* Requests a direct caller keeps in flight at the same time.
MaxRequests == 1

\* tutorService.startSession(level, targetLanguage, mode, scenario) with the
\* arguments of this run.
tutorService_startSession ==
    /\ service' = startSession(env.svc, service, env.cfg.level,
                               env.cfg.targetLanguage, env.cfg.mode, env.cfg.scenario)
    /\ lastOp' = "startSession"
    /\ UNCHANGED <<env, session, notice, held, authVars, storeVars, chatVars, playVars, recVars, tasks>>

\* tutorService.sendMessage(text) up to its await.
tutorService_sendMessage ==
    /\ Len(tasks) < MaxRequests
    /\ tasks' = Append(tasks, TextRequest(env.svc, service))
    /\ service' = sendMessage(env.svc, service)
    /\ lastOp' = "sendMessage"
    /\ UNCHANGED <<env, session, notice, held, authVars, storeVars, chatVars, playVars, recVars>>

\* tutorService.processAudio(audioBlob) up to its await of blobToBase64.
tutorService_processAudio(size) ==
    /\ Len(tasks) < MaxRequests
    /\ tasks' = Append(tasks, Task("audio", "encode", Undefined, size, <<>>,
                                   GetAIThrows(env.svc)))
    /\ lastOp' = "processAudio"
    /\ UNCHANGED <<env, session, notice, held, authVars, storeVars, chatVars, playVars, recVars, service>>

\* The remote call of a request resolved or rejected: the method returns to
\* its caller.
RequestSettled(i) ==
    /\ i \in 1..Len(tasks)
    /\ tasks[i].pc = "send"
    /\ tasks' = Remove(tasks, i)
    /\ lastOp' = "requestSettled"
    /\ UNCHANGED <<env, session, notice, held, authVars, storeVars, chatVars, playVars, recVars, service>>

-----------------------------------------------------------------------------
(* Inputs *)

\* Longest raw reply and longest scenario, in tokens.
MaxReplyLen == 4
MaxScenarioLen == 2

\* All strings of at most n tokens over an alphabet.
RECURSIVE StringsUpTo(_, _)
StringsUpTo(alphabet, n) ==
    IF n = 0 THEN {<<>>}
    ELSE LET shorter == StringsUpTo(alphabet, n - 1)
         IN  shorter \cup {Append(s, t) : s \in shorter, t \in alphabet}

\* The two examples of the parser's contract that have words in them.
RoundTripReply == <<TMARK, WS, "hello", WS, RMARK, WS, "hi", WS, "there">>
NoMarkerReply == <<"just", WS, "a", WS, "reply">>

\* Every raw reply the remote model may give for a clip.
AllReplies ==
    StringsUpTo({TMARK, RMARK, WS, "hi"}, MaxReplyLen)
        \cup {RoundTripReply, NoMarkerReply}

\* A few replies, for the runs that explore the interleavings.
FewReplies == {<<>>, <<TMARK, "hello", RMARK, "hi">>}

UsernameInputs == {"", "alice", "bob", "constructor"}
PasswordInputs == {"", "pw1", "pw2"}
ScenarioInputs == StringsUpTo({WS, "airport"}, MaxScenarioLen)
TextInputs == {<<>>, <<WS>>, <<"hello">>}

\* The arguments of a startSession call.
Config(lvl, lang, m, scenario) ==
    [level |-> lvl, targetLanguage |-> lang, mode |-> m, scenario |-> scenario]

AllConfigs ==
    {Config(l, g, m, sc) : l \in LEVELS, g \in GOALS, m \in PracticeModes,
                           sc \in ScenarioInputs}

\* env: the variant of App and of the service that runs, the raw replies the
\* remote model may give, the arguments a direct caller of the service gives
\* startSession, and whether process.env.API_KEY is set.
Env(app, svc, replies, cfg) ==
    [app |-> app, svc |-> svc, replies |-> replies, cfg |-> cfg, key |-> TRUE]

\* The same with process.env.API_KEY unset.
EnvNoKey(app, svc, replies, cfg) == [Env(app, svc, replies, cfg) EXCEPT !.key = FALSE]

NoConfig == Config("B1", "English", "MENU", <<>>)

-----------------------------------------------------------------------------
(* The application *)

\* The state once the component has mounted with an empty localStorage.
InitApp ==
    /\ currentUser = Null /\ isRegistering = FALSE /\ authError = ""
    /\ username = "" /\ password = "" /\ level = "B1" /\ targetLanguage = "English"
    /\ tutor_user = Null /\ tutor_users_db = EmptyDb
    /\ mode = "MENU" /\ customScenarioInput = <<>> /\ messages = <<>>
    /\ inputText = <<>>
    /\ isRecording = FALSE /\ isProcessing = FALSE /\ isPlaying = FALSE
    /\ mediaRecorderRef = 0 /\ audioChunksRef = <<>> /\ audioContextRef = FALSE /\ contexts = 0
    /\ service = NewService
    /\ tasks = <<>> /\ recorders = <<>> /\ micPending = 0 /\ sources = 0
    /\ session = 0 /\ notice = "" /\ held = FALSE
    /\ lastOp = "init"

Init ==
    /\ env \in {Env(a, s, FewReplies, NoConfig) : a \in AppVariants, s \in SvcVariants}
    /\ InitApp

\* The auth screen.
AuthForm ==
    \/ \E u \in UsernameInputs : SetUsername(u)
    \/ \E p \in PasswordInputs : SetPassword(p)
    \/ \E l \in {"A1"} : SetLevel(l)
    \/ \E g \in {"Russian"} : SetTargetLanguage(g)
    \/ ToggleRegistering
    \/ handleAuth

\* The menu and the header of the chat screen.
Menu ==
    \/ handleLogout
    \/ \E s \in ScenarioInputs : setCustomScenarioInput(s)
    \/ \E m \in PracticeModes \ {"MENU"} : startPractice(m)
    \/ BackToMenu
    \/ ClearChat
    \/ \E l \in {"C2"} : handleProfileUpdate([f \in {"level"} |-> l])

\* The text area and the send button.
TextChat ==
    \/ \E t \in TextInputs : setInputText(t)
    \/ handleSendText
    \/ \E i \in 1..MaxTasks : \E raw \in env.replies : TextResolved(i, raw)
    \/ \E i \in 1..MaxTasks : TextRejected(i)

\* playResponse after its first await.
Speaking ==
    \/ \E i \in 1..MaxTasks : SpeechResolved(i)
    \/ \E i \in 1..MaxTasks : SpeechEmpty(i)
    \/ \E i \in 1..MaxTasks : SpeechRejected(i)
    \/ \E i \in 1..MaxTasks : DecodeResolved(i)
    \/ \E i \in 1..MaxTasks : DecodeRejected(i)
    \/ SourceEnded

\* The Play button and playResponse.
Playback ==
    \/ \E k \in 1..(MaxMessages + 2 * MaxRecorders + 1) : PlayClicked(k)
    \/ Speaking

\* The microphone button and the recorder.
Recording ==
    \/ startRecording
    \/ MicGranted
    \/ MicDenied
    \/ RecorderFailed
    \/ \E size \in ClipSizes : stopRecording(size)
    \/ \E r \in 1..MaxRecorders : DataAvailable(r)

\* recorder.onstop.
VoiceChat ==
    \/ \E r \in 1..MaxRecorders : OnStop(r)
    \/ \E i \in 1..MaxTasks : AudioEncoded(i)
    \/ \E i \in 1..MaxTasks : \E raw \in env.replies : AudioResolved(i, raw)
    \/ \E i \in 1..MaxTasks : AudioRejected(i)

Next == AuthForm \/ Menu \/ TextChat \/ Playback \/ Recording \/ VoiceChat

Spec == Init /\ [][Next]_vars

-----------------------------------------------------------------------------
(* Text exchange: sign-up of one user, one session, the text chat, playback *)

SignUp ==
    \/ \E u \in {"alice"} : SetUsername(u)
    \/ \E p \in {"pw1"} : SetPassword(p)
    \/ ToggleRegistering
    \/ handleAuth

InitText == Init

NextText ==
    \/ SignUp
    \/ \E m \in {"CONVERSATION"} : startPractice(m)
    \/ TextChat
    \/ Playback

SpecText == InitText /\ [][NextText]_vars

\* The messages list grew by exactly one message, of the tutor.
OneTutorMessageAdded ==
    /\ Len(messages') = Len(messages) + 1
    /\ SubSeq(messages', 1, Len(messages)) = messages
    /\ messages'[Len(messages')].role = TUTOR
    /\ messages'[Len(messages')].text # <<>>

\* C1: when the sendMessage call of handleSendText fails, the handler ends
\* having added exactly one message, a tutor message with an error notice, to
\* the message list, and with isProcessing false.
C1_TextSendFailure ==
    [][lastOp' = "textRejected" =>
          /\ OneTutorMessageAdded
          /\ isProcessing' = FALSE
          /\ Len(tasks') = Len(tasks) - 1]_vars

\* A text send has failed while isProcessing was true and messages were shown.
C1_Witness ==
    /\ lastOp = "textRejected"
    /\ Len(messages) >= 3
    /\ messages[Len(messages) - 1].role = USER
    /\ messages[Len(messages)] = Message(TUTOR, TextErrorMessage(env.app))
    /\ ~isProcessing

-----------------------------------------------------------------------------
(* Authentication: the auth form with all its inputs, logout, profile update *)

InitAuth ==
    /\ env \in {Env(a, "geminiService", FewReplies, NoConfig) : a \in AppVariants}
    /\ InitApp

NextAuth ==
    \/ AuthForm
    \/ handleLogout
    \/ \E m \in {"CONVERSATION"} : startPractice(m)
    \/ BackToMenu
    \/ \E l \in {"C2"} : handleProfileUpdate([f \in {"level"} |-> l])

SpecAuth == InitAuth /\ [][NextAuth]_vars

\* The form is filled in and asks for what the identity store must refuse: a
\* sign-up under a name the directory has, or a login under a name it does
\* not have or with another password than the stored one.
MustBeRejected ==
    /\ username # "" /\ password # ""
    /\ IF isRegistering
       THEN username \in DOMAIN tutor_users_db
       ELSE \/ username \notin DOMAIN tutor_users_db
            \/ tutor_users_db[username].password # password

\* C2: a sign-up under an existing username, and a login under an unknown
\* username or with a wrong password, are rejected: the users directory, the
\* stored current user and the current user in memory stay as they are, and
\* the auth error text is the only thing set.
C2_AuthRejected ==
    [][lastOp' = "handleAuth" /\ MustBeRejected =>
          /\ tutor_users_db' = tutor_users_db
          /\ tutor_user' = tutor_user
          /\ currentUser' = currentUser
          /\ authError' # ""
          /\ UNCHANGED <<isRegistering, username, password, level, targetLanguage,
                         chatVars, service>>]_vars

\* Each kind of rejection has happened with users in the directory: a second
\* sign-up as alice, or a login with a wrong password or as an unknown user.
C2_Witness ==
    /\ lastOp = "handleAuth"
    /\ currentUser = Null
    /\ "alice" \in DOMAIN tutor_users_db
    /\ \/ isRegistering /\ username = "alice" /\ authError = UserExistsError(env.app)
       \/ /\ ~isRegistering /\ username = "alice"
          /\ tutor_users_db["alice"].password # password /\ password # ""
          /\ authError = BadLoginError(env.app)

-----------------------------------------------------------------------------
(* The reply parser: one recorded clip and every reply the model may give *)

\* alice has signed up, started a conversation, and held and released the
\* microphone button; the recorder has handed over its data and is about to
\* call onstop.
ClipRecorded(size) ==
    /\ currentUser = User("alice", "B1", "English")
    /\ isRegistering = TRUE /\ authError = ""
    /\ username = "alice" /\ password = "pw1"
    /\ level = "B1" /\ targetLanguage = "English"
    /\ tutor_user = User("alice", "B1", "English")
    /\ tutor_users_db =
          Put(EmptyDb, "alice",
              [password |-> "pw1", level |-> "B1", targetLanguage |-> "English"])
    /\ mode = "CONVERSATION" /\ customScenarioInput = <<>>
    /\ messages = <<Message(TUTOR, Greeting(env.app, User("alice", "B1", "English"),
                                            "CONVERSATION"))>>
    /\ inputText = <<>>
    /\ isRecording = FALSE /\ isProcessing = FALSE /\ isPlaying = FALSE
    /\ mediaRecorderRef = 1 /\ audioChunksRef = <<size>> /\ audioContextRef = FALSE /\ contexts = 0
    /\ service = startSession(env.svc, NewService, "B1", "English", "CONVERSATION",
                              <<>>)
    /\ tasks = <<>>
    /\ recorders = <<Recorder("stopping", FALSE, size)>>
    /\ micPending = 0 /\ sources = 0
    /\ session = 1 /\ notice = "" /\ held = FALSE
    /\ lastOp = "dataAvailable"

InitParser ==
    /\ env \in {Env(a, s, {r}, NoConfig) :
                  a \in AppVariants, s \in {"geminiService", "part_001a"},
                  r \in AllReplies}
    /\ \E size \in {MinClipSize - 1, MinClipSize} : ClipRecorded(size)

NextParser == VoiceChat \/ Speaking

SpecParser == InitParser /\ [][NextParser]_vars

\* The reply of the remote model in this run, and the string processAudio
\* hands to recorder.onstop for it.
Reply == CHOOSE r \in env.replies : TRUE
Heard == TextOf(env.svc, Reply, "audio")

\* The two parts of a reply around the first response marker.
BeforeFirst(s) == SubSeq(s, 1, IndexOf(s, RMARK) - 1)
AfterFirst(s) == SubSeq(s, IndexOf(s, RMARK) + 1, Len(s))

\* The transcription a part stands for: the transcription marker (its first
\* occurrence, or each one) removed, and the rest trimmed.
Transcriptions(part) ==
    {Trim(ReplaceFirst(part, TMARK)), Trim(SelectSeq(part, LAMBDA t : t # TMARK))}

\* The fixed texts that stand for a transcription the reply does not give.
Placeholders ==
    {<<"Audio processed">>, <<"I heard something but couldn't transcribe it.">>,
     <<"Audio input">>, <<"Unintelligible audio">>, <<"Audio message">>}

\* The step is the try block of recorder.onstop adding its two messages.
ReplyShown ==
    /\ lastOp' = "audioResolved"
    /\ Len(messages') = Len(messages) + 2

\* The texts of the two messages the step added.
ShownUser == messages'[Len(messages') - 1].text
ShownTutor == messages'[Len(messages')].text

\* C3: a reply that has the response marker is split at its first occurrence:
\* the user message is the text before it, without the transcription marker
\* and trimmed (where that leaves any text), and the tutor message is all of
\* the text after the first marker, trimmed.
C3_SplitAtFirstMarker ==
    [][ReplyShown /\ Includes(Heard, RMARK) =>
          /\ ShownTutor = Trim(AfterFirst(Heard))
          /\ \/ ShownUser \in Transcriptions(BeforeFirst(Heard))
             \/ Transcriptions(BeforeFirst(Heard)) = {<<>>}]_vars

\* The example "[TRANSCRIPTION] hello [RESPONSE] hi there" has been shown as
\* "hello" and "hi there".
C3_Witness ==
    /\ lastOp = "audioResolved"
    /\ Heard = RoundTripReply
    /\ SubSeq(messages, 2, 3) =
          <<Message(USER, <<"hello">>), Message(TUTOR, <<"hi", WS, "there">>)>>

\* C4: a reply without the response marker is shown whole as the tutor
\* message (trimmed and without a stray transcription marker at most), next
\* to a fixed placeholder as the user message: the reply is not shown as what
\* the user said and no canned text takes its place.
C4_NoMarkerFallback ==
    [][ReplyShown /\ ~Includes(Heard, RMARK) =>
          /\ ShownTutor \in {Heard, Trim(Heard), Trim(StripMarkers(Heard))}
          /\ ShownUser \in Placeholders]_vars

\* The example without markers has been shown whole, next to a placeholder.
C4_Witness ==
    /\ lastOp = "audioResolved"
    /\ Heard = NoMarkerReply
    /\ messages[3] = Message(TUTOR, NoMarkerReply)
    /\ messages[2].text \in Placeholders

\* C5: a reply with one response marker and nothing before it but the
\* transcription marker and whitespace is shown with a fixed, non-empty
\* placeholder as the user message and the trimmed text after the marker as
\* the tutor message.
C5_EmptyTranscription ==
    [][/\ ReplyShown
       /\ Includes(Heard, RMARK) /\ ~Includes(AfterFirst(Heard), RMARK)
       /\ Transcriptions(BeforeFirst(Heard)) = {<<>>}
       =>
          /\ ShownUser \in Placeholders
          /\ ShownTutor = Trim(AfterFirst(Heard)) \/ Trim(AfterFirst(Heard)) = <<>>]_vars

\* A reply "[RESPONSE] hi" has been shown with a placeholder.
C5_Witness ==
    /\ lastOp = "audioResolved"
    /\ Heard = <<RMARK, WS, "hi">>
    /\ messages[2].text \in Placeholders
    /\ messages[3] = Message(TUTOR, <<"hi">>)

\* C6: whatever string a successful processAudio call returns, the parsing
\* does not throw: the catch block of recorder.onstop is not entered, one
\* user message and after it one tutor message are added, and the handler
\* goes on to play the response.
C6_ParserTotal ==
    [][lastOp' = "audioResolved" =>
          /\ Len(messages') = Len(messages) + 2
          /\ SubSeq(messages', 1, Len(messages)) = messages
          /\ messages'[Len(messages') - 1].role = USER
          /\ messages'[Len(messages')].role = TUTOR
          /\ Len(tasks') = Len(tasks)
          /\ \E i \in 1..Len(tasks') : tasks'[i].kind = "audio" /\ tasks'[i].pc = "speech"
          /\ isProcessing' = isProcessing]_vars

\* A reply with the markers repeated and out of order has been parsed.
C6_Witness ==
    /\ lastOp = "audioResolved"
    /\ Heard = <<RMARK, RMARK, TMARK>>
    /\ Len(messages) = 3
    /\ isProcessing

-----------------------------------------------------------------------------
(* Voice exchange: sign-up of one user, one session, the recorder, playback *)

InitVoice ==
    /\ env \in {Env(a, s, FewReplies, NoConfig) :
                  a \in AppVariants, s \in {"geminiService", "part_000"}}
    /\ InitApp

NextVoice ==
    \/ SignUp
    \/ \E m \in {"CONVERSATION"} : startPractice(m)
    \/ Recording
    \/ VoiceChat
    \/ Speaking

SpecVoice == InitVoice /\ [][NextVoice]_vars

\* C7: a clip smaller than the threshold is not submitted: recorder.onstop
\* issues no processAudio call for it, adds no message and does not leave
\* isProcessing true.
C7_SmallClipDropped ==
    [][lastOp' = "onStop" /\ Sum(audioChunksRef) < MinClipSize =>
          /\ tasks' = tasks
          /\ messages' = messages
          /\ isProcessing' = FALSE]_vars

\* A clip one byte under the threshold has been dropped.
C7_Witness ==
    /\ lastOp = "onStop"
    /\ audioChunksRef = <<MinClipSize - 1>>
    /\ tasks = <<>>
    /\ Len(messages) = 1
    /\ ~isProcessing

-----------------------------------------------------------------------------
(* The instruction string: tutorService under every session configuration *)

InitSvc ==
    /\ env \in {Env("App_a", s, {<<>>}, c) : s \in SvcVariants, c \in AllConfigs}
    /\ InitApp

NextSvc ==
    \/ tutorService_startSession
    \/ tutorService_sendMessage
    \/ \E size \in {MinClipSize} : tutorService_processAudio(size)
    \/ \E i \in 1..MaxRequests : AudioEncoded(i)
    \/ \E i \in 1..MaxRequests : RequestSettled(i)

SpecSvc == InitSvc /\ [][NextSvc]_vars

\* The instruction strings a step builds or sends out: that of a chat it
\* creates, that of a request it issues, that of a clip it sends.
InstructionsBuilt ==
    ( (IF service'.chat # service.chat THEN {service'.chat} ELSE {})
      \cup (IF Len(tasks') = Len(tasks) + 1 THEN {tasks'[Len(tasks')].instr} ELSE {})
      \cup (IF Len(tasks') = Len(tasks)
            THEN {tasks'[i].instr :
                    i \in {j \in 1..Len(tasks) :
                             tasks[j].pc = "encode" /\ tasks'[j].pc = "send"}}
            ELSE {}) ) \ {Undefined}

\* The name the instruction must give the tutoring language, and the one it
\* must not.
LanguageLabel(lang) == IF lang = "English" THEN "English" ELSE "Russian"
OtherLabel(lang) == IF lang = "English" THEN "Russian" ELSE "English"

\* C8: for each level, each target language and each mode, the instruction
\* built from the session's configuration is not empty, has the level's entry
\* of the table of descriptions in it, and names English as the tutoring
\* language when the target language is English and Russian when it is not.
C8_InstructionNamesLevelAndLanguage ==
    [][\A x \in InstructionsBuilt :
          /\ x # <<>>
          /\ levelDescriptions(env.svc, service'.currentLevel) # "undefined"
          /\ Includes(x, levelDescriptions(env.svc, service'.currentLevel))
          /\ Includes(x, LanguageLabel(service'.targetLanguage))
          /\ ~Includes(x, OtherLabel(service'.targetLanguage))]_vars

\* A request has gone out for a C2 student of Russian.
C8_Witness ==
    /\ service.currentLevel = "C2" /\ service.targetLanguage = "Russian"
    /\ tasks # <<>>
    /\ tasks[1].pc = "send" /\ tasks[1].instr # Undefined
    /\ Includes(tasks[1].instr, "Russian")
    /\ Includes(tasks[1].instr, levelDescriptions(env.svc, "C2"))

\* C9: in Custom mode the instruction has the scenario text given to
\* startSession in it, as it was given: its context line is "Context: ", the
\* scenario, and at most a fixed ending.
C9_CustomScenarioVerbatim ==
    [][\A x \in InstructionsBuilt :
          service'.currentMode = "CUSTOM" =>
             \E ending \in {<<>>, <<". Adopt this persona/scenario strictly.">>} :
                Contains(x, Br \o <<"Context: ">> \o env.cfg.scenario \o ending \o Br)]_vars

\* A request has gone out in Custom mode with a scenario that starts with
\* whitespace.
C9_Witness ==
    /\ service.currentMode = "CUSTOM"
    /\ env.cfg.scenario = <<WS, "airport">>
    /\ tasks # <<>>
    /\ tasks[1].pc = "send" /\ tasks[1].instr # Undefined
    /\ Contains(tasks[1].instr, <<"Context: ", WS, "airport">>)

\* The context line of an instruction: what stands between its first two
\* line breaks.
ContextClause(x) == At(Split(x, Br[1]), 1)

\* C10: the context clause depends on the mode with four distinct outcomes:
\* the clause an instruction has for its mode is not the clause of any other
\* mode; the clause for Menu is not the one for Conversation.
C10_FourContextClauses ==
    [][\A x \in InstructionsBuilt :
          \A m \in PracticeModes \ {service'.currentMode} :
             ContextClause(x) # modeInstruction(env.svc, m, service'.customScenario)]_vars

\* A request has gone out in Menu mode with the generic-practice clause.
C10_Witness ==
    /\ service.currentMode = "MENU"
    /\ tasks # <<>>
    /\ tasks[1].instr # Undefined
    /\ ContextClause(tasks[1].instr) = GenericClause

-----------------------------------------------------------------------------
(* Failures and the hold gesture of the voice chat, under SpecVoice *)

\* C11: when the processAudio call made by recorder.onstop fails, a tutor
\* message describing the failure is appended to the message list, no user
\* message is appended, and isProcessing returns to false.
C11_AudioFailureSurfaced ==
    [][lastOp' = "audioRejected" =>
          /\ OneTutorMessageAdded
          /\ isProcessing' = FALSE]_vars

\* An audio send has failed and the failure is the last message shown.
C11_Witness ==
    /\ lastOp = "audioRejected"
    /\ env.app = "App_a"
    /\ messages = <<Message(TUTOR, Greeting(env.app, currentUser, mode))>>
                    \o AudioErrorMessages(env.app)
    /\ ~isProcessing

\* C12: when getSpeech yields no audio, or fails, playResponse adds no
\* message, starts no audio source, and has isPlaying false when it returns.
C12_NoAudioIsNoOp ==
    [][lastOp' \in {"speechEmpty", "speechRejected"} =>
          /\ messages' = messages
          /\ sources' = sources
          /\ isPlaying' = FALSE]_vars

\* playResponse has returned without audio and the play indicator is off.
C12_Witness ==
    /\ lastOp \in {"speechEmpty", "speechRejected"}
    /\ env.app # "part_002"
    /\ Len(messages) >= 2
    /\ sources = 0
    /\ ~isPlaying

\* C13: when microphone access is denied, recording does not start, a notice
\* is shown to the user, and messages, isProcessing and mode are unchanged.
C13_MicDeniedNotice ==
    [][lastOp' = "micDenied" =>
          /\ isRecording' = isRecording
          /\ recorders' = recorders
          /\ mediaRecorderRef' = mediaRecorderRef
          /\ tasks' = tasks
          /\ UNCHANGED <<messages, isProcessing, mode>>
          /\ notice' # ""]_vars

\* The microphone was denied in a session and the notice is on the screen.
C13_Witness ==
    /\ lastOp = "micDenied"
    /\ ChatScreen
    /\ notice = MicNotice(env.app) /\ notice # ""
    /\ ~isRecording /\ recorders = <<>>

\* C15: every audio submission to the remote model carries the recorded clip
\* and the instruction string built from the current session configuration.
C15_AudioCarriesInstruction ==
    \A i \in 1..Len(tasks) :
        tasks[i].kind = "audio" /\ tasks[i].pc = "send" =>
           /\ tasks[i].clip > 0
           /\ tasks[i].instr = RequestInstruction(env.svc, service)

\* A clip is on its way to the model together with the instruction string.
C15_Witness ==
    /\ env.svc = "part_000"
    /\ \E i \in 1..Len(tasks) :
          /\ tasks[i].kind = "audio" /\ tasks[i].pc = "send"
          /\ tasks[i].clip > 0
          /\ tasks[i].instr = RequestInstruction(env.svc, service)
          /\ tasks[i].instr # Undefined

\* C20: a recorder is recording only while the microphone button is held or
\* an acquisition is pending: every release ends the recording of its press.
C20_RecordingOnlyWhileHeld ==
    ~held /\ micPending = 0 =>
        \A r \in 1..Len(recorders) : recorders[r].state # "recording"

\* A press was released after its recorder had started, and nothing records.
C20_Witness ==
    /\ lastOp = "stopRecording"
    /\ ~held /\ micPending = 0
    /\ recorders # <<>>
    /\ \A r \in 1..Len(recorders) : recorders[r].state # "recording"

\* The remote exchanges in flight: sendMessage and processAudio calls whose
\* request has gone out and has not settled.
InFlight == {i \in 1..Len(tasks) : tasks[i].kind \in {"text", "audio"} /\ tasks[i].pc = "send"}

\* C16: at most one remote exchange, text send or audio send, is in flight
\* at any time, under every interleaving of presses, releases and replies.
C16_OneExchangeInFlight == Cardinality(InFlight) <= 1

\* One audio exchange is in flight, isProcessing is true, nothing else runs.
C16_Witness ==
    /\ Cardinality(InFlight) = 1
    /\ Len(tasks) = 1
    /\ isProcessing
    /\ micPending = 0 /\ ~isRecording

-----------------------------------------------------------------------------
(* The menu: users, scenario field, practice modes and the profile update *)

\* The level the profile menu of the chat screen is set to.
NewLevel == "C2"

\* What is typed into the scenario field: nothing, a blank, a scenario.
ScenarioTexts == {<<>>, <<WS>>, <<"airport">>}

InitProfile ==
    /\ env \in {Env(a, s, {<<>>}, NoConfig) : a \in AppVariants, s \in SvcVariants}
    /\ InitApp

NextProfile ==
    \/ \E u \in {"alice", "bob"} : SetUsername(u)
    \/ \E p \in {"pw1"} : SetPassword(p)
    \/ ToggleRegistering
    \/ handleAuth
    \/ handleLogout
    \/ \E sc \in ScenarioTexts : setCustomScenarioInput(sc)
    \/ \E m \in PracticeModes \ {"MENU"} : startPractice(m)
    \/ BackToMenu
    \/ \E l \in {NewLevel} : handleProfileUpdate([f \in {"level"} |-> l])

SpecProfile == InitProfile /\ [][NextProfile]_vars

\* The profile update of a step: the three copies of the profile hold the old
\* profile with the new level, the password and every other entry are kept.
ProfileMerged ==
    LET name == currentUser.username
    IN  /\ currentUser' = [currentUser EXCEPT !.level = NewLevel]
        /\ tutor_user' = [tutor_user EXCEPT !.level = NewLevel]
        /\ DOMAIN tutor_users_db' = DOMAIN tutor_users_db
        /\ tutor_users_db'[name] = [tutor_users_db[name] EXCEPT !.level = NewLevel]
        /\ tutor_users_db'[name].password = tutor_users_db[name].password
        /\ \A other \in DOMAIN tutor_users_db \ {name} :
              tutor_users_db'[other] = tutor_users_db[other]

\* The session of the service after the step is configured with the new
\* level, the user's language and the mode on the screen, and what it tells
\* the model is the instruction built from them and the session's scenario.
SessionReconfigured ==
    LET instruction == getSystemInstruction(env.svc, NewLevel,
                                            currentUser.targetLanguage, mode,
                                            service.customScenario)
    IN  /\ service'.currentLevel = NewLevel
        /\ service'.targetLanguage = currentUser.targetLanguage
        /\ service'.currentMode = mode
        /\ RequestInstruction(env.svc, service') = instruction
        /\ HasChat(env.svc) => service'.chat = instruction

\* C14 as stated: after a profile update the three copies of the profile are
\* the old profile overwritten by the supplied fields, and the active session
\* is reconfigured with the same mode and the same scenario.
C14_SameScenario ==
    [][lastOp' = "handleProfileUpdate" =>
          /\ ProfileMerged
          /\ SessionReconfigured
          /\ service'.customScenario = service.customScenario]_vars

\* C14: after a profile update the three copies of the profile are the old
\* profile overwritten by the supplied fields, password and other users are
\* untouched, and the active session is reconfigured with the new level, the
\* same language and mode and the text of the scenario field, so that the
\* instruction is the one of the same scenario.
C14_ProfileUpdate ==
    [][lastOp' = "handleProfileUpdate" =>
          /\ ProfileMerged
          /\ SessionReconfigured
          /\ service'.customScenario = customScenarioInput]_vars

\* The level was changed during a Custom session with two users on file.
C14_Witness ==
    /\ lastOp = "handleProfileUpdate"
    /\ mode = "CUSTOM"
    /\ DOMAIN tutor_users_db = {"alice", "bob"}
    /\ currentUser = User("bob", NewLevel, "English")
    /\ tutor_users_db["bob"].level = NewLevel
    /\ tutor_users_db["alice"].level = "B1"
    /\ service.currentLevel = NewLevel
    /\ service.customScenario = <<"airport">>

\* C18: whenever the mode is Custom, the scenario given to the session at
\* start time is non-empty after trimming.
C18_CustomHasScenario ==
    mode = "CUSTOM" => Trim(service.customScenario) # <<>>

\* A Custom session runs with the scenario typed into the field.
C18_Witness ==
    /\ mode = "CUSTOM"
    /\ lastOp = "startPractice"
    /\ env.app = "App_a"
    /\ service.customScenario = <<"airport">>

-----------------------------------------------------------------------------
(* Sessions: text chat across back-to-menu, clear chat, logout and restart *)

InitSession ==
    /\ env \in {Env(a, "part_000", {<<"hi">>}, NoConfig) : a \in AppVariants}
    /\ InitApp

NextSession ==
    \/ SignUp
    \/ handleLogout
    \/ \E m \in {"CONVERSATION"} : startPractice(m)
    \/ BackToMenu
    \/ ClearChat
    \/ \E t \in {<<"hello">>} : setInputText(t)
    \/ handleSendText
    \/ \E i \in 1..MaxTasks : \E raw \in env.replies : TextResolved(i, raw)
    \/ \E i \in 1..MaxTasks : TextRejected(i)
    \/ \E i \in 1..MaxTasks : SpeechEmpty(i)

SpecSession == InitSession /\ [][NextSession]_vars

\* The step settles request i: its handler goes on to playResponse or ends.
Settles(i) ==
    /\ i \in 1..Len(tasks)
    /\ tasks[i].kind \in {"text", "audio"} /\ tasks[i].pc \in {"encode", "send"}
    /\ \/ tasks' = Remove(tasks, i)
       \/ /\ Len(tasks') = Len(tasks)
          /\ tasks'[i].pc = "speech"
          /\ \A j \in 1..Len(tasks) : j # i => tasks'[j] = tasks[j]

\* C17: every message belongs to the current practice session: the reply or
\* error notice of a request started in an earlier session is never appended
\* to the message list of a later one.
C17_MessagesOfCurrentSession ==
    [][lastOp' \in {"textResolved", "textRejected", "audioResolved", "audioRejected"}
       /\ messages' # messages =>
          \E i \in 1..Len(tasks) : Settles(i) /\ tasks[i].session = session]_vars

\* A reply was appended in the session in which it was asked for.
C17_Witness ==
    /\ lastOp = "textResolved"
    /\ session = 2
    /\ Len(messages) = 3
    /\ messages[2].role = USER /\ messages[3] = Message(TUTOR, <<"hi">>)
    /\ \E i \in 1..Len(tasks) : tasks[i].pc = "speech" /\ tasks[i].session = session

\* The list before the step is a prefix of the list after it.
IsPrefix(before, after) ==
    /\ Len(before) <= Len(after)
    /\ SubSeq(after, 1, Len(before)) = before

\* C19: the message list is append-only within a session: every action but
\* start practice, clear chat and logout leaves the list before it a prefix of
\* the list after it; those three empty it, and right after startPractice the
\* list holds exactly one greeting of the tutor.
C19_AppendOnly ==
    [][CASE lastOp' = "startPractice" ->
              /\ Len(messages') = 1
              /\ messages'[1].role = TUTOR /\ messages'[1].text # <<>>
         [] lastOp' \in {"clearChat", "handleLogout"} -> messages' = <<>>
         [] OTHER -> IsPrefix(messages, messages')]_vars

\* A chat with a question and its answer was cleared, or left by logging out.
C19_Witness ==
    /\ lastOp \in {"clearChat", "handleLogout"}
    /\ messages = <<>>
    /\ session >= 1
    /\ \E i \in 1..Len(tasks) : tasks[i].kind = "text" /\ tasks[i].pc = "speech"

-----------------------------------------------------------------------------
(* Resources and frames: microphone streams, the audio context, no-op sends *)

\* The microphone streams that are open: acquired, no track stopped.
LiveStreams == {r \in 1..Len(recorders) : recorders[r].live}

\* C21: every microphone stream acquired by startRecording is released on the
\* stop path and on the error paths, and at most one is open at a time: an
\* open stream is that of the recorder in mediaRecorderRef, which records.
C21_StreamsReleased ==
    /\ Cardinality(LiveStreams) <= 1
    /\ \A r \in LiveStreams :
          r = mediaRecorderRef /\ recorders[r].state = "recording" /\ isRecording

\* A recording was stopped and its stream, the only one acquired, released.
C21_Witness ==
    /\ lastOp = "stopRecording"
    /\ Len(recorders) = 1
    /\ recorders[1].state = "flushing"
    /\ LiveStreams = {}

\* C22: over any interleaving of playResponse calls at most one audio output
\* context is ever created, and every playback uses it.
C22_OneAudioContext ==
    /\ contexts <= 1
    /\ audioContextRef <=> contexts = 1
    /\ sources > 0 => audioContextRef

\* Two playbacks whose synthesis requests overlapped play on the one context.
C22_Witness ==
    /\ contexts = 1
    /\ audioContextRef
    /\ sources = 2

\* The playbacks under way: playResponse calls not returned, sources playing.
PlaybackPending == {i \in 1..Len(tasks) : tasks[i].pc \in {"speech", "decode"}}

\* C25: isPlaying tracks playback: when it is false no synthesis request of
\* playResponse is pending and no audio source is playing.
C25_IsPlayingTracksPlayback ==
    ~isPlaying => PlaybackPending = {} /\ sources = 0

\* The one source that played has ended and isPlaying is false.
C25_Witness ==
    /\ lastOp = "sourceEnded"
    /\ ~isPlaying
    /\ sources = 0 /\ PlaybackPending = {}
    /\ contexts = 1

\* C28: a successful audio exchange appends the user's transcription and,
\* right after it, the tutor's response, at the end of the list, and no other
\* step puts a message anywhere but at the end.
C28_PairAppendedTogether ==
    [][/\ lastOp' = "audioResolved" /\ Len(tasks') = Len(tasks) =>
             /\ Len(messages') = Len(messages) + 2
             /\ messages'[Len(messages) + 1].role = USER
             /\ messages'[Len(messages) + 2].role = TUTOR
       /\ lastOp' # "startPractice" => IsPrefix(messages, messages')]_vars

\* The pair of a second audio exchange follows the pair of the first.
C28_Witness ==
    /\ lastOp = "audioResolved"
    /\ Len(messages) = 5
    /\ messages[2].role = USER /\ messages[3].role = TUTOR
    /\ messages[4].role = USER /\ messages[5].role = TUTOR

\* The text is empty or consists of white space.
Blank(text) == \A k \in 1..Len(text) : text[k] = WS

\* C30: a text send whose input is empty or blank, or that is attempted while
\* isProcessing is true, has no effect: no message, no remote call, and
\* inputText, isProcessing and isPlaying unchanged.
C30_NoOpSend ==
    [][lastOp' = "handleSendText" /\ (Blank(inputText) \/ isProcessing) =>
          UNCHANGED <<messages, tasks, inputText, isProcessing, isPlaying, service>>]_vars

\* A send of a text was attempted while a request was in flight.
C30_Witness ==
    /\ lastOp = "handleSendText"
    /\ isProcessing /\ inputText = <<"hello">>
    /\ Len(tasks) = 1 /\ tasks[1].pc = "send"
    /\ Len(messages) = 2

-----------------------------------------------------------------------------
(* The App without an API credential *)

InitNoKey ==
    /\ env \in {EnvNoKey(a, s, FewReplies, NoConfig) :
                  a \in AppVariants, s \in SvcVariants}
    /\ InitApp

NextNoKey ==
    \/ SignUp
    \/ \E m \in {"CONVERSATION"} : startPractice(m)
    \/ \E t \in {<<"hello">>} : setInputText(t)
    \/ handleSendText
    \/ \E i \in 1..MaxTasks : TextRejected(i)
    \/ startRecording
    \/ MicGranted
    \/ \E size \in {MinClipSize} : stopRecording(size)
    \/ \E r \in 1..MaxRecorders : DataAvailable(r)
    \/ \E r \in 1..MaxRecorders : OnStop(r)
    \/ \E i \in 1..MaxTasks : AudioEncoded(i)
    \/ \E i \in 1..MaxTasks : AudioRejected(i)
    \/ \E k \in 1..MaxMessages : PlayClicked(k)
    \/ \E i \in 1..MaxTasks : SpeechEmpty(i)
    \/ \E i \in 1..MaxTasks : SpeechRejected(i)

SpecNoKey == InitNoKey /\ [][NextNoKey]_vars

\* The step starts a handler whose service call has thrown before its await.
FailsBeforeRequest ==
    Len(tasks') = Len(tasks) + 1 => tasks'[Len(tasks')].doomed

\* C23: when the API credential is missing, a text send and an audio send
\* fail before a remote request is issued and each ends in a tutor message
\* that surfaces the failure, with isProcessing false; speech synthesis
\* yields no audio.
C23_MissingCredential ==
    [][/\ lastOp' \in {"handleSendText", "onStop"} => FailsBeforeRequest
       /\ lastOp' # "audioEncoded"
       /\ lastOp' \in {"textRejected", "audioRejected"} =>
             OneTutorMessageAdded /\ isProcessing' = FALSE
       /\ sources' = 0 /\ ~audioContextRef']_vars

\* Without a key, in the service whose getAI throws, a text send has ended
\* in an error message of the tutor.
C23_Witness ==
    /\ ~env.key /\ env.svc = "part_001a"
    /\ lastOp = "textRejected"
    /\ messages[Len(messages)] = Message(TUTOR, TextErrorMessage(env.app))
    /\ ~isProcessing
    /\ tasks = <<>>

-----------------------------------------------------------------------------
(* Liveness: every exchange ends, given that every call returns or fails *)

InitLive ==
    /\ env \in {Env(a, "geminiService", FewReplies, NoConfig) : a \in AppVariants}
    /\ InitApp

\* The user speaks once, holding the button until the recorder runs, and
\* types.
NextLive ==
    \/ SignUp
    \/ \E m \in {"CONVERSATION"} : startPractice(m)
    \/ \E t \in {<<"hello">>} : setInputText(t)
    \/ handleSendText
    \/ \E i \in 1..MaxTasks : \E raw \in env.replies : TextResolved(i, raw)
    \/ \E i \in 1..MaxTasks : TextRejected(i)
    \/ recorders = <<>> /\ micPending = 0 /\ startRecording
    \/ MicGranted
    \/ \E size \in ClipSizes : isRecording /\ stopRecording(size)
    \/ \E r \in 1..MaxRecorders : DataAvailable(r)
    \/ VoiceChat
    \/ Speaking

\* The call that handler i awaits returns or fails.
Returns(i) ==
    \/ \E raw \in env.replies : TextResolved(i, raw)
    \/ TextRejected(i)
    \/ AudioEncoded(i)
    \/ \E raw \in env.replies : AudioResolved(i, raw)
    \/ AudioRejected(i)
    \/ SpeechResolved(i)
    \/ SpeechEmpty(i)
    \/ SpeechRejected(i)
    \/ DecodeResolved(i)
    \/ DecodeRejected(i)

\* Every awaited call eventually returns or fails.
EveryCallReturns == \A i \in 1..MaxTasks : WF_vars(Returns(i))

SpecLive == InitLive /\ [][NextLive]_vars /\ EveryCallReturns

\* C24: whenever isProcessing is true it eventually becomes false again, so
\* that a later text submission is accepted.
C24_ProcessingEnds == isProcessing ~> ~isProcessing

\* An exchange has run to the end of its playback and isProcessing is false.
C24_Witness ==
    /\ lastOp = "decodeResolved"
    /\ ~isProcessing
    /\ tasks = <<>>
    /\ Len(messages) >= 2
    /\ sources = 1

-----------------------------------------------------------------------------
(* The identity store across sign-up, login, logout, profile update, reload *)

\* The page is loaded again: the component state is the initial one, and the
\* effect run on mount restores the current user from the stored tutor_user.
Reload ==
    /\ currentUser' = tutor_user
    /\ isRegistering' = FALSE /\ authError' = ""
    /\ username' = "" /\ password' = "" /\ level' = "B1" /\ targetLanguage' = "English"
    /\ mode' = "MENU" /\ customScenarioInput' = <<>> /\ messages' = <<>>
    /\ inputText' = <<>>
    /\ isRecording' = FALSE /\ isProcessing' = FALSE /\ isPlaying' = FALSE
    /\ mediaRecorderRef' = 0 /\ audioChunksRef' = <<>>
    /\ audioContextRef' = FALSE /\ contexts' = 0
    /\ service' = NewService
    /\ tasks' = <<>> /\ recorders' = <<>> /\ micPending' = 0 /\ sources' = 0
    /\ notice' = "" /\ held' = FALSE
    /\ lastOp' = "reload"
    /\ UNCHANGED <<env, storeVars, session>>

InitStore ==
    /\ env \in {Env(a, "geminiService", {<<>>}, NoConfig) : a \in AppVariants}
    /\ InitApp

NextStore ==
    \/ \E u \in {"alice", "bob"} : SetUsername(u)
    \/ \E p \in {"pw1"} : SetPassword(p)
    \/ \E l \in {"A1"} : SetLevel(l)
    \/ \E g \in {"Russian"} : SetTargetLanguage(g)
    \/ ToggleRegistering
    \/ handleAuth
    \/ handleLogout
    \/ Reload
    \/ \E m \in {"CONVERSATION"} : startPractice(m)
    \/ BackToMenu
    \/ \E l \in {NewLevel} : handleProfileUpdate([f \in {"level"} |-> l])

SpecStore == InitStore /\ [][NextStore]_vars

\* C26: the stored current-user record equals the current user in memory,
\* absent exactly when nobody is logged in, and the directory has an entry for
\* the logged-in user with the current user's level and target language.
C26_StoreConsistent ==
    /\ tutor_user = currentUser
    /\ currentUser # Null =>
          /\ currentUser.username \in DOMAIN tutor_users_db
          /\ tutor_users_db[currentUser.username].level = currentUser.level
          /\ tutor_users_db[currentUser.username].targetLanguage
                = currentUser.targetLanguage

\* Bob, who signed up at level A1 for Russian after alice, is logged in after a
\* reload with the level the profile menu gave him.
C26_Witness ==
    /\ lastOp = "reload"
    /\ currentUser = User("bob", NewLevel, "Russian")
    /\ tutor_user = currentUser
    /\ DOMAIN tutor_users_db = {"alice", "bob"}
    /\ tutor_users_db["bob"].level = NewLevel

\* The form asks for a login with the name and password of a directory entry.
GoodLogin ==
    /\ ~isRegistering
    /\ username \in DOMAIN tutor_users_db
    /\ password # "" /\ tutor_users_db[username].password = password

\* C27: a sign-up stores the profile and the password; a later login with
\* them succeeds and restores a current user with the level and the target
\* language last stored for the name; logout leaves the directory unchanged.
C27_RoundTrip ==
    [][/\ lastOp' = "handleAuth" /\ isRegistering /\ currentUser' # Null =>
             /\ username \in DOMAIN tutor_users_db'
             /\ tutor_users_db'[username] =
                   [password |-> password, level |-> level,
                    targetLanguage |-> targetLanguage]
       /\ lastOp' = "handleAuth" /\ GoodLogin =>
             currentUser' = User(username, tutor_users_db[username].level,
                                 tutor_users_db[username].targetLanguage)
       /\ lastOp' = "handleLogout" => tutor_users_db' = tutor_users_db]_vars

\* Alice, who signed up at A1 for Russian and was moved to another level by the
\* profile menu, has logged in again and has that level.
C27_Witness ==
    /\ lastOp = "handleAuth"
    /\ ~isRegistering
    /\ currentUser = User("alice", NewLevel, "Russian")
    /\ tutor_users_db["alice"] =
          [password |-> "pw1", level |-> NewLevel, targetLanguage |-> "Russian"]

-----------------------------------------------------------------------------
(* The configuration of the requests: users, modes, profile update, sends *)

\* The directory after alice signed up with the defaults of the form and bob at
\* level A1 for Russian.
TwoUsers ==
    Put(Put(EmptyDb, "alice",
            [password |-> "pw1", level |-> "B1", targetLanguage |-> "English"]),
        "bob", [password |-> "pw1", level |-> "A1", targetLanguage |-> "Russian"])

\* The page loaded with both users on file and nobody logged in.
UsersOnFile ==
    /\ currentUser = Null /\ isRegistering = FALSE /\ authError = ""
    /\ username = "" /\ password = "" /\ level = "B1" /\ targetLanguage = "English"
    /\ tutor_user = Null /\ tutor_users_db = TwoUsers
    /\ mode = "MENU" /\ customScenarioInput = <<>> /\ messages = <<>>
    /\ inputText = <<>>
    /\ isRecording = FALSE /\ isProcessing = FALSE /\ isPlaying = FALSE
    /\ mediaRecorderRef = 0 /\ audioChunksRef = <<>>
    /\ audioContextRef = FALSE /\ contexts = 0
    /\ service = NewService
    /\ tasks = <<>> /\ recorders = <<>> /\ micPending = 0 /\ sources = 0
    /\ session = 0 /\ notice = "" /\ held = FALSE
    /\ lastOp = "reload"

InitConfig ==
    /\ env \in {Env(a, s, {<<>>}, NoConfig) :
                  a \in AppVariants, s \in {"geminiService", "part_000"}}
    /\ UsersOnFile

\* The two users log in, talk in a Conversation or a Custom session, by text
\* or by one recording, change their level, go back and log out.
NextConfig ==
    \/ \E u \in {"alice", "bob"} : SetUsername(u)
    \/ \E p \in {"pw1"} : SetPassword(p)
    \/ handleAuth
    \/ handleLogout
    \/ \E sc \in {<<"airport">>} : setCustomScenarioInput(sc)
    \/ \E m \in {"CONVERSATION", "CUSTOM"} : startPractice(m)
    \/ BackToMenu
    \/ \E l \in {NewLevel} : handleProfileUpdate([f \in {"level"} |-> l])
    \/ \E t \in {<<"hello">>} : setInputText(t)
    \/ handleSendText
    \/ \E i \in 1..MaxTasks : TextRejected(i)
    \/ recorders = <<>> /\ micPending = 0 /\ startRecording
    \/ MicGranted
    \/ \E size \in {MinClipSize} : isRecording /\ stopRecording(size)
    \/ \E r \in 1..MaxRecorders : DataAvailable(r)
    \/ \E r \in 1..MaxRecorders : OnStop(r)
    \/ \E i \in 1..MaxTasks : AudioEncoded(i)
    \/ \E i \in 1..MaxTasks : AudioRejected(i)

SpecConfig == InitConfig /\ [][NextConfig]_vars

\* The step sends a text or a clip to the remote model.
SendsRequest ==
    \/ lastOp' = "handleSendText" /\ Len(tasks') = Len(tasks) + 1
    \/ lastOp' = "audioEncoded"

\* The instruction strings of the requests the step sends.
SentInstructions ==
    {tasks'[i].instr :
       i \in {j \in 1..Len(tasks') :
                /\ tasks'[j].pc = "send"
                /\ j > Len(tasks) \/ tasks[j].pc # "send"}} \ {Undefined}

\* The configuration s is that of the user logged in and of the screen.
ConfigOfScreen(s) ==
    /\ currentUser # Null
    /\ s.currentLevel = currentUser.level
    /\ s.targetLanguage = currentUser.targetLanguage
    /\ s.currentMode = mode
    /\ mode = "CUSTOM" => s.customScenario = customScenarioInput

\* C29: every text or audio request sent to the remote model is built from a
\* session configuration equal to the logged-in user's level and target
\* language and the mode and scenario on the screen.
C29_RequestsMatchScreen ==
    [][SendsRequest =>
          /\ ConfigOfScreen(service')
          /\ \A instr \in SentInstructions :
                instr = getSystemInstruction(env.svc, currentUser.level,
                                             currentUser.targetLanguage, mode,
                                             service'.customScenario)]_vars

\* Bob, after alice's session, sends a text in a Custom session at his new
\* level, and the request carries his configuration.
C29_Witness ==
    /\ lastOp = "handleSendText"
    /\ currentUser = User("bob", NewLevel, "Russian")
    /\ tutor_users_db["alice"].level = NewLevel
    /\ mode = "CUSTOM"
    /\ Len(tasks) = 1 /\ tasks[1].pc = "send"
    /\ ConfigOfScreen(service)
    /\ service.customScenario = <<"airport">>

=============================================================================
